---- MODULE Spec2Model ----
(***************************************************************************)
(* Model of MSU2-LINUX-1.py: the serial transport (SER_Read, SER_rw,       *)
(* set_device_state), device discovery (Get_MSN_Device), the daemon loop   *)
(* (daemon_task) and the frame encoder (Screen_Date_Process).              *)
(*                                                                         *)
(* The specifications share the variables:                                 *)
(*   Spec     the daemon thread alone, as the program runs it, on a link   *)
(*            that is faulty until the environment makes it good;          *)
(*   FairSpec Spec with the daemon thread scheduled again and again;       *)
(*   SpecRW   several threads calling SER_rw on one shared handle, and     *)
(*            FairRW with each of them scheduled again and again;          *)
(*   SpecEnc  Screen_Date_Process applied to buffers of a bounded family;  *)
(*   SpecPace the clock of the Connected tick.                             *)
(***************************************************************************)
EXTENDS Integers, Sequences, FiniteSets, TLC

(***************************************************************************)
(* Bounds of the model.                                                    *)
(***************************************************************************)
\* the read-poll budget, 500000 in SER_Read, scaled down
TryBudget == 2
\* the longest port list comports() returns
MaxPorts == 2
\* the number of concurrent callers of SER_rw in SpecRW
NumCallers == 2

(***************************************************************************)
(* Bytes and byte strings.  A byte string is a sequence of 0..255.         *)
(***************************************************************************)
\* hex_use = b"\x00MSNCN", the challenge frame
CHALLENGE == <<0, 77, 83, 78, 67, 78>>
\* b'\x00MSN', the identity marker
MARKER == <<0, 77, 83, 78>>

\* what SER_Read returns on exhaustion of the budget (the integer 0 in the
\* source, which no byte string equals)
TIMEOUT == <<-1>>
\* ser before any port was opened (Python's None): port 0
NoSer == [port |-> 0, is_open |-> FALSE]

\* recv[a:b] of Python for 0 <= a, with 0-based indices
Slice(s, a, b) ==
    LET hi == IF b > Len(s) THEN Len(s) ELSE b
    IN  IF a >= hi THEN <<>> ELSE [i \in 1..(hi - a) |-> s[a + i]]

\* recv[-k:] of Python
LastK(s, k) == IF Len(s) <= k THEN s ELSE Slice(s, Len(s) - k, Len(s))

(***************************************************************************)
(* What one ser.read(ser.in_waiting) can deliver: nothing, or one of these *)
(* chunks (greetings, echoes, acknowledgements, junk).                     *)
(***************************************************************************)
Chunks ==
    { <<0, 77, 83, 78, 49, 50>>,            \* a greeting: marker and version "12"
      <<120, 0, 77, 83, 78, 49, 50>>,       \* the greeting after one junk byte
      <<0, 77, 83, 78, 49, 50, 120>>,       \* the greeting before one junk byte
      <<0, 77, 83, 78, 49, 120>>,           \* marker with a non-digit version
      CHALLENGE,                            \* the exact echo
      <<120>> \o CHALLENGE,                 \* ends with the echo
      CHALLENGE \o <<120>>,                 \* does not end with the echo
      <<120>>,                              \* one junk byte
      <<2, 3>>,                             \* short acknowledgement
      <<2, 3, 10, 0, 0, 0>>,                \* orientation acknowledgement
      <<8, 9, 0, 0, 0, 0>> }                \* analog sample 0

Threads == 0..NumCallers
Daemon == 0
Callers == 1..NumCallers

VARIABLES
    pc,             \* per thread: the statement about to run
    stack,          \* per thread: the labels to return to
    ret,            \* per thread: the value the last call returned
    ser,            \* the global serial handle: [port, is_open], port 0 for None
    Device_State,   \* 0 Disconnected, 1 Connected
    SER_lock,       \* -1 free, or the thread holding it
    rw,             \* per thread: SER_rw's read, size, result, exit line
    sr,             \* per thread: SER_Read's trytimes and recv
    port_list,      \* Get_MSN_Device: the ports still to try
    port,           \* Get_MSN_Device: the port being tried
    gmd_recv,       \* Get_MSN_Device: recv
    n,              \* Get_MSN_Device: the scan index
    nmax,           \* Get_MSN_Device: len(recv) - 5 when the scan began
    My_MSN_Device,  \* Get_MSN_Device: 0 for None, or the authenticated port
    adc_readings,   \* Get_MSN_Device: the samples taken so far
    ADC_det,        \* the calibration baseline
    failed,         \* the functions that took their failure return in this iteration
    echoFailed,     \* the ports whose last challenge response failed the echo check
    Photo_data,     \* Screen_Date_Process: the buffer
    hex_out,        \* Screen_Date_Process: the bytes returned
    enc_pc,         \* Screen_Date_Process: "off", "ready" or "done"
    link,           \* the environment: "faulty", or "good" once an authentic
                    \* device answers every exchange and no fault occurs
    device_port,    \* the port of the authentic device when the link is good
    leaked,         \* how many open handles `ser` no longer refers to
    issued,         \* Get_MSN_Device: the exchanges issued on the current port
    monotonic,          \* what time.monotonic() returns
    current_monoto_time,
    last_refresh_time,
    wait_time,
    pace_pc             \* the timed tick of SpecPace: the statement about to run

tvars == <<pc, stack, ret>>
gvars == <<ser, Device_State, SER_lock>>
rwvars == <<rw, sr>>
dvars == <<port_list, port, gmd_recv, n, nmax, My_MSN_Device, adc_readings,
           ADC_det, failed, echoFailed>>
evars == <<Photo_data, hex_out, enc_pc>>
envvars == <<link, device_port>>
pvars == <<monotonic, current_monoto_time, last_refresh_time, wait_time, pace_pc>>
\* what the transport and most of the daemon leave alone
nvars == <<evars, envvars, pvars, leaked>>
ovars == <<nvars, issued>>
vars == <<tvars, gvars, rwvars, dvars, ovars>>

(***************************************************************************)
(* Control: calls, returns and exceptions of one thread.                   *)
(***************************************************************************)
Goto(t, label) == pc' = [pc EXCEPT ![t] = label]

\* call `label`, to come back at `back`
Call(t, label, back) ==
    /\ pc' = [pc EXCEPT ![t] = label]
    /\ stack' = [stack EXCEPT ![t] = <<back>> \o @]

\* the call sites that drop the value returned: LCD_Set_Color (line 291),
\* show_PC_state (line 402) and the caller threads of SpecRW
Discarding == {"show_PC_state", "show_pace", "caller_idle"}

\* return `value` to the caller
Return(t, value) ==
    /\ pc' = [pc EXCEPT ![t] = Head(stack[t])]
    /\ stack' = [stack EXCEPT ![t] = Tail(@)]
    /\ ret' = [ret EXCEPT ![t] = IF Head(stack[t]) \in Discarding
                                 THEN <<>> ELSE value]

\* The except clause that catches an exception raised in a function called to
\* come back at `back`: SER_rw's (line 373) for its own SER_Write and
\* SER_Read, Get_MSN_Device's (line 427) for its open and SER_Read; every other
\* call site of the daemon is covered only by daemon_task's (line 516).  A
\* caller thread of SpecRW has no handler and ends.
HandlerOf(back) ==
    CASE back = "SER_rw_got" -> "SER_rw_except"
      [] back = "gmd_read_ret" -> "gmd_except"
      [] back = "caller_idle" -> "caller_raised"
      [] OTHER -> "d_except"

\* how many frames an exception raised below `back` unwinds: the frames of
\* the daemon's tick and discovery are all dropped by daemon_task's handler
Unwound(t) ==
    IF HandlerOf(Head(stack[t])) \in {"d_except", "caller_raised"}
    THEN <<>> ELSE Tail(stack[t])

Raise(t) ==
    /\ pc' = [pc EXCEPT ![t] = HandlerOf(Head(stack[t]))]
    /\ stack' = [stack EXCEPT ![t] = Unwound(t)]

(***************************************************************************)
(* The serial handle.                                                      *)
(***************************************************************************)
\* ser is not None and ser.is_open
IsOpen(s) == s.port # 0 /\ s.is_open

\* ser.close()
Close(s) == [s EXCEPT !.is_open = FALSE]

\* set_device_state that leaves Device_State as it is
sds_State_stuck(state) == Device_State

\* set_device_state(state), lines 383-389: the new Device_State ...
sds_State(state) == IF Device_State # state THEN state ELSE Device_State

\* ... and the new ser: closed only when the state changes to 0
sds_Ser(state) ==
    IF Device_State # state /\ state = 0 THEN Close(ser) ELSE ser

set_device_state(state) ==
    /\ Device_State' = sds_State(state)
    /\ ser' = sds_Ser(state)

(***************************************************************************)
(* SER_Read, lines 337-348.                                                *)
(***************************************************************************)
NoRead == [trytimes |-> 0, recv |-> <<>>]

\* one ser.read(ser.in_waiting): what a faulty link delivers
ReadResults == Chunks \cup {<<>>}

\* the exchange a SER_Read of thread t belongs to: the label that SER_rw, or
\* SER_Read when Get_MSN_Device called it, comes back at
ExchangeOf(t) ==
    IF Head(stack[t]) = "SER_rw_got" THEN stack[t][2] ELSE Head(stack[t])

\* what an authentic device sends: its greeting when the port is opened, the
\* echo of the challenge, and the acknowledgements of the commands
Answer(back) ==
    CASE back = "gmd_read_ret" -> <<0, 77, 83, 78, 49, 50>>
      [] back = "gmd_echo" -> CHALLENGE
      [] back = "LCD_ADD_check" -> <<2, 3>>
      [] back = "LCD_State_check" -> <<2, 3, 10, 0, 0, 0>>
      [] back = "Read_ADC_CH_check" -> <<8, 9, 0, 0, 0, 0>>
      [] OTHER -> <<>>

\* what one ser.read delivers to thread t; `polled` is FALSE for the read of
\* line 341 and TRUE for those of line 343.  On a good link the device's port
\* answers by the first poll and the other ports are silent.
Reads(t, polled) ==
    IF link = "faulty" THEN ReadResults
    ELSE IF ser.port # device_port THEN {<<>>}
    ELSE IF polled THEN {Answer(ExchangeOf(t))}
    ELSE {<<>>, Answer(ExchangeOf(t))}

\* a read or a write of the handle can raise: on a faulty link, or when the
\* handle is closed
CanRaise == link = "faulty" \/ ~IsOpen(ser)

\* lines 340-341: trytimes = 500000; recv = ser.read(ser.in_waiting)
SER_Read_first(t) ==
    /\ pc[t] = "SER_Read"
    /\ \/ /\ IsOpen(ser)
          /\ \E c \in Reads(t, FALSE) :
                sr' = [sr EXCEPT ![t] = [trytimes |-> TryBudget, recv |-> c]]
          /\ Goto(t, "SER_Read_loop")
          /\ UNCHANGED <<stack, ret>>
       \/ /\ CanRaise
          /\ Raise(t)
          /\ UNCHANGED <<sr, ret>>
    /\ UNCHANGED <<gvars, rw, dvars, ovars>>

\* the loop condition without its budget test
SER_Read_more_unbounded(r) == Len(r.recv) = 0

\* line 342: the loop condition
SER_Read_more(r) == Len(r.recv) = 0 /\ r.trytimes > 0

\* line 344: trytimes -= 1
SER_Read_dec(tt) == tt - 1

\* lines 345-348: the value returned
SER_Read_ret(r) == IF r.trytimes = 0 THEN TIMEOUT ELSE r.recv

\* lines 342-344: one more poll
SER_Read_poll(t) ==
    /\ pc[t] = "SER_Read_loop"
    /\ SER_Read_more(sr[t])
    /\ \/ /\ IsOpen(ser)
          /\ \E c \in Reads(t, TRUE) :
                sr' = [sr EXCEPT ![t] = [trytimes |-> SER_Read_dec(@.trytimes),
                                         recv |-> c]]
          /\ UNCHANGED tvars
       \/ /\ CanRaise
          /\ Raise(t)
          /\ sr' = [sr EXCEPT ![t] = NoRead]
          /\ UNCHANGED ret
    /\ UNCHANGED <<gvars, rw, dvars, ovars>>

\* lines 345-348: the loop is left
SER_Read_return(t) ==
    /\ pc[t] = "SER_Read_loop"
    /\ ~SER_Read_more(sr[t])
    /\ Return(t, SER_Read_ret(sr[t]))
    /\ UNCHANGED <<gvars, rw, sr, dvars, ovars>>

(***************************************************************************)
(* SER_rw, lines 350-381.  rw[t].exit is the line of the return statement  *)
(* taken (359, 363, 369, 372 or 381), 0 while none is, RAISED when an      *)
(* exception leaves SER_rw.                                                *)
(***************************************************************************)
NoRw == [read |-> FALSE, size |-> 0, result |-> <<>>, exit |-> 0]

\* the value of rw[t].exit when SER_rw is left by an exception
RAISED == -1

\* the call SER_rw(data, read, size) made to come back at `back`
Call_SER_rw(t, read, size, back) ==
    /\ Call(t, "SER_rw", back)
    /\ rw' = [rw EXCEPT ![t] = [read |-> read, size |-> size,
                                result |-> <<>>, exit |-> 0]]
    /\ sr' = [sr EXCEPT ![t] = NoRead]

\* SER_rw entered without waiting for the lock
SER_rw_acquire_unguarded(t) ==
    /\ pc[t] = "SER_rw"
    /\ SER_lock' = t
    /\ Goto(t, "SER_rw_check")
    /\ UNCHANGED <<stack, ret, ser, Device_State, rwvars, dvars, ovars>>

\* line 355: SER_lock.acquire()
SER_rw_acquire(t) ==
    /\ pc[t] = "SER_rw"
    /\ SER_lock = -1
    /\ SER_lock' = t
    /\ Goto(t, "SER_rw_check")
    /\ UNCHANGED <<stack, ret, ser, Device_State, rwvars, dvars, ovars>>

\* lines 357-359: if not ser.is_open: return result
SER_rw_check(t) ==
    /\ pc[t] = "SER_rw_check"
    /\ IF ~IsOpen(ser)
       THEN /\ rw' = [rw EXCEPT ![t].exit = 359]
            /\ Goto(t, "SER_rw_finally")
       ELSE /\ Goto(t, "SER_rw_write")
            /\ UNCHANGED rw
    /\ UNCHANGED <<stack, ret, gvars, sr, dvars, ovars>>

\* lines 361-363: SER_Write(data); if not read: return result
SER_rw_write(t) ==
    /\ pc[t] = "SER_rw_write"
    /\ \/ /\ IsOpen(ser)
          /\ IF ~rw[t].read
             THEN /\ rw' = [rw EXCEPT ![t].exit = 363]
                  /\ Goto(t, "SER_rw_finally")
                  /\ UNCHANGED stack
             ELSE /\ Call(t, "SER_Read", "SER_rw_got")
                  /\ UNCHANGED rw
       \/ /\ CanRaise
          /\ Goto(t, "SER_rw_except")
          /\ UNCHANGED <<stack, rw>>
    /\ UNCHANGED <<ret, gvars, sr, dvars, ovars>>

\* lines 367-372: recv = SER_Read(); 0 ends the exchange, bytes are collected
\* until there are `size` of them
SER_rw_got(t) ==
    /\ pc[t] = "SER_rw_got"
    /\ IF ret[t] = TIMEOUT
       THEN /\ rw' = [rw EXCEPT ![t].exit = 369]
            /\ Goto(t, "SER_rw_finally")
            /\ UNCHANGED stack
       ELSE LET result == rw[t].result \o ret[t]
            IN  IF Len(result) >= rw[t].size
                THEN /\ rw' = [rw EXCEPT ![t].result = result, ![t].exit = 372]
                     /\ Goto(t, "SER_rw_finally")
                     /\ UNCHANGED stack
                ELSE /\ rw' = [rw EXCEPT ![t].result = result]
                     /\ Call(t, "SER_Read", "SER_rw_got")
    /\ sr' = [sr EXCEPT ![t] = NoRead]
    /\ UNCHANGED <<ret, gvars, dvars, ovars>>

\* the handler left by an exception without the finally clause
SER_rw_except_unreleased(t) ==
    /\ pc[t] = "SER_rw_except"
    /\ \/ /\ ser' = Close(ser)
          /\ Goto(t, "SER_rw_finally")
          /\ UNCHANGED <<stack, rw>>
       \/ /\ link = "faulty"
          /\ Raise(t)
          /\ rw' = [rw EXCEPT ![t] = [NoRw EXCEPT !.exit = RAISED]]
          /\ UNCHANGED ser
    /\ UNCHANGED <<ret, Device_State, SER_lock, sr, dvars, ovars>>

\* lines 373-375: except Exception: ser.close(); the close can itself raise
\* on a faulty link, and the exception then leaves SER_rw through the finally
\* clause
SER_rw_except(t) ==
    /\ pc[t] = "SER_rw_except"
    /\ \/ /\ ser' = Close(ser)
          /\ UNCHANGED rw
       \/ /\ link = "faulty"
          /\ rw' = [rw EXCEPT ![t].exit = RAISED]
          /\ UNCHANGED ser
    /\ Goto(t, "SER_rw_finally")
    /\ UNCHANGED <<stack, ret, Device_State, SER_lock, sr, dvars, ovars>>

\* lines 376-377: finally: SER_lock.release(); a pending return then
\* returns, a pending exception goes on to the caller's handler
SER_rw_finally(t) ==
    /\ pc[t] = "SER_rw_finally"
    /\ SER_lock' = -1
    /\ IF rw[t].exit = RAISED
       THEN /\ Raise(t)
            /\ rw' = [rw EXCEPT ![t] = [NoRw EXCEPT !.exit = RAISED]]
            /\ UNCHANGED ret
       ELSE IF rw[t].exit # 0
       THEN /\ Return(t, rw[t].result)
            /\ rw' = [rw EXCEPT ![t] = [NoRw EXCEPT !.exit = rw[t].exit]]
       ELSE /\ Goto(t, "SER_rw_post")
            /\ UNCHANGED <<stack, ret, rw>>
    /\ UNCHANGED <<ser, Device_State, sr, dvars, ovars>>

\* line 380: set_device_state(0)
SER_rw_post(t) ==
    /\ pc[t] = "SER_rw_post"
    /\ set_device_state(0)
    /\ Goto(t, "SER_rw_ret381")
    /\ UNCHANGED <<stack, ret, SER_lock, rwvars, dvars, ovars>>

\* line 381: return result
SER_rw_return(t) ==
    /\ pc[t] = "SER_rw_ret381"
    /\ Return(t, rw[t].result)
    /\ rw' = [rw EXCEPT ![t] = [NoRw EXCEPT !.exit = 381]]
    /\ UNCHANGED <<gvars, sr, dvars, ovars>>

\* the steps of SER_rw and SER_Read of thread t
Transport(t) ==
    \/ SER_Read_first(t)
    \/ SER_Read_poll(t)
    \/ SER_Read_return(t)
    \/ SER_rw_acquire(t)
    \/ SER_rw_check(t)
    \/ SER_rw_write(t)
    \/ SER_rw_got(t)
    \/ SER_rw_except(t)
    \/ SER_rw_finally(t)
    \/ SER_rw_post(t)
    \/ SER_rw_return(t)

(***************************************************************************)
(* SpecRW: threads that call SER_rw on the handle of a connected device,   *)
(* as section 5 of the specification allows a background thread to do.     *)
(***************************************************************************)
\* the size arguments a caller passes: the default, and one that a one-byte
\* chunk does not reach
CallerSizes == {0, 2}

Caller_call(t) ==
    /\ pc[t] = "caller_idle"
    /\ \E read \in BOOLEAN, size \in CallerSizes :
          Call_SER_rw(t, read, size, "caller_idle")
    /\ UNCHANGED <<ret, gvars, dvars, ovars>>

\* no thread is in a call, nothing is held
InitIdle ==
    /\ stack = [t \in Threads |-> <<>>]
    /\ ret = [t \in Threads |-> <<>>]
    /\ SER_lock = -1
    /\ rw = [t \in Threads |-> NoRw]
    /\ sr = [t \in Threads |-> NoRead]
    /\ port_list = <<>>
    /\ port = 0
    /\ gmd_recv = <<>>
    /\ n = 0
    /\ nmax = 0
    /\ My_MSN_Device = 0
    /\ adc_readings = <<>>
    /\ ADC_det = 0
    /\ failed = {}
    /\ echoFailed = {}
    /\ leaked = 0
    /\ issued = <<>>

\* a link on which anything can happen
Faulty ==
    /\ link = "faulty"
    /\ device_port = 0

\* lines 36-38, with the timed tick of SpecPace not under way
PaceOff ==
    /\ monotonic = 0
    /\ current_monoto_time = 0
    /\ last_refresh_time = 0
    /\ wait_time = 0
    /\ pace_pc = "off"

\* Screen_Date_Process is not under way
EncOff ==
    /\ Photo_data = <<>>
    /\ hex_out = <<>>
    /\ enc_pc = "off"

\* a device is connected on port 1 and every caller is between two exchanges
InitRW ==
    /\ InitIdle
    /\ EncOff
    /\ Faulty
    /\ PaceOff
    /\ pc = [t \in Threads |-> IF t \in Callers THEN "caller_idle" ELSE "off"]
    /\ ser = [port |-> 1, is_open |-> TRUE]
    /\ Device_State = 1

NextRW == \E t \in Callers : Caller_call(t) \/ Transport(t)

SpecRW == InitRW /\ [][NextRW]_vars

\* every thread keeps running
FairRW == SpecRW /\ \A t \in Callers : WF_vars(Transport(t))

(***************************************************************************)
(* Response validation of the command builders.                            *)
(***************************************************************************)
\* line 305: len(recv) > 1 and recv[0] == 2 and recv[1] == 3
LCD_ADD_valid(recv) == Len(recv) > 1 /\ recv[1] = 2 /\ recv[2] = 3

\* line 323: len(recv) > 5 and recv[0] == hex_use[0] and recv[1] == hex_use[1]
LCD_State_valid(recv) == Len(recv) > 5 /\ recv[1] = 2 /\ recv[2] = 3

\* line 481, for Read_ADC_CH(9): hex_use = 08 09 00 00 00 00
Read_ADC_CH_valid(recv) == Len(recv) > 5 /\ recv[1] = 8 /\ recv[2] = 9

\* line 482: recv[4] * 256 + recv[5]
Read_ADC_CH_value(recv) == recv[5] * 256 + recv[6]

\* lines 436-437 raise IndexError when recv[n + 5] does not exist
ScanIndexError(recv, k) == k + 5 >= Len(recv)

\* line 438, negated: the marker and two ASCII digits at offset k
ScanMatch(recv, k) ==
    /\ Slice(recv, k, k + 4) = MARKER
    /\ recv[k + 5] - 48 >= 0 /\ recv[k + 5] - 48 < 10
    /\ recv[k + 6] - 48 >= 0 /\ recv[k + 6] - 48 < 10

\* line 445: recv[-6:] == hex_use
EchoOK(recv) == LastK(recv, 6) = CHALLENGE

\* sum(adc_readings) // 3 - 200, line 465
ADC_baseline(r) == ((r[1] + r[2] + r[3]) \div 3) - 200

(***************************************************************************)
(* daemon_task, lines 488-518, and what it calls.                          *)
(***************************************************************************)
d == Daemon

\* the locals of Get_MSN_Device, dropped when it is left, and with them
\* what the model recorded about the iteration
NoLocals ==
    /\ port_list' = <<>>
    /\ port' = 0
    /\ gmd_recv' = <<>>
    /\ n' = 0
    /\ nmax' = 0
    /\ My_MSN_Device' = 0
    /\ adc_readings' = <<>>
    /\ issued' = <<>>
    /\ echoFailed' = {}
    /\ failed' = {}
    /\ rw' = [rw EXCEPT ![d] = NoRw]

locals == <<port_list, port, gmd_recv, n, nmax, My_MSN_Device, adc_readings>>

\* line 494: if Device_State == 1
daemon_test ==
    /\ pc[d] = "d_loop"
    /\ IF Device_State = 1 THEN Goto(d, "LCD_ADD") ELSE Goto(d, "d_comports")
    /\ failed' = {}
    /\ UNCHANGED <<stack, ret, gvars, rwvars, locals, ADC_det, echoFailed, ovars>>

\* how many ports of the vendor there are: any number on a faulty link, and
\* on a good one enough for the device's port to be among them
PortCounts == IF link = "faulty" THEN 0..MaxPorts ELSE device_port..MaxPorts

\* lines 504-508: the ports of the vendor, none or some; comports() can raise
daemon_comports ==
    /\ pc[d] = "d_comports"
    /\ \/ \E k \in PortCounts :
             /\ port_list' = [i \in 1..k |-> i]
             /\ IF k = 0 THEN Goto(d, "d_sleep2") ELSE Goto(d, "gmd_entry")
       \/ /\ link = "faulty"
          /\ Goto(d, "d_except")
          /\ UNCHANGED port_list
    /\ UNCHANGED <<stack, ret, gvars, rwvars, port, gmd_recv, n, nmax,
                   My_MSN_Device, adc_readings, ADC_det, failed, echoFailed, ovars>>

\* lines 510-511: if Device_State != 0: continue
daemon_after_get ==
    /\ pc[d] = "d_after_get"
    /\ IF Device_State # 0 THEN Goto(d, "d_loop") ELSE Goto(d, "d_sleep2")
    /\ NoLocals
    /\ UNCHANGED <<stack, ret, gvars, sr, ADC_det, nvars>>

\* lines 513-514: time.sleep(2)
daemon_sleep2 ==
    /\ pc[d] = "d_sleep2"
    /\ Goto(d, "d_loop")
    /\ UNCHANGED <<stack, ret, gvars, rwvars, dvars, ovars>>

\* a handler that ends daemon_task
daemon_except_exits ==
    /\ pc[d] = "d_except"
    /\ Goto(d, "off")
    /\ NoLocals
    /\ UNCHANGED <<stack, ret, gvars, sr, ADC_det, nvars>>

\* lines 516-518: except Exception: time.sleep(1)
daemon_except ==
    /\ pc[d] = "d_except"
    /\ Goto(d, "d_loop")
    /\ NoLocals
    /\ UNCHANGED <<stack, ret, gvars, sr, ADC_det, nvars>>

\* an exception no function of the tick or of discovery catches: control
\* goes to line 516
Uncaught ==
    /\ pc' = [pc EXCEPT ![d] = "d_except"]
    /\ stack' = [stack EXCEPT ![d] = <<>>]

(* LCD_ADD, lines 293-310 *)
LCD_ADD_call ==
    /\ pc[d] = "LCD_ADD"
    /\ Call_SER_rw(d, TRUE, 0, "LCD_ADD_check")
    /\ UNCHANGED <<ret, gvars, dvars, ovars>>

\* line 305
LCD_ADD_check ==
    /\ pc[d] = "LCD_ADD_check"
    /\ IF LCD_ADD_valid(ret[d])
       THEN Goto(d, "LCD_Set_Color")
       ELSE Goto(d, "LCD_ADD_fail")
    /\ ret' = [ret EXCEPT ![d] = <<>>]
    /\ UNCHANGED <<stack, gvars, rwvars, dvars, ovars>>

\* line 309
LCD_ADD_fail ==
    /\ pc[d] = "LCD_ADD_fail"
    /\ set_device_state(0)
    /\ Goto(d, "LCD_ADD_ret0")
    /\ UNCHANGED <<stack, ret, SER_lock, rwvars, dvars, ovars>>

\* line 310: return 0, which daemon_task (line 497) does not look at
LCD_ADD_return0 ==
    /\ pc[d] = "LCD_ADD_ret0"
    /\ failed' = failed \cup {"LCD_ADD"}
    /\ Goto(d, "LCD_Set_Color")
    /\ UNCHANGED <<stack, ret, gvars, rwvars, locals, ADC_det, echoFailed, ovars>>

\* LCD_Set_Color, lines 282-291, called at line 498
LCD_Set_Color ==
    /\ pc[d] = "LCD_Set_Color"
    /\ Call_SER_rw(d, FALSE, 0, "show_PC_state")
    /\ UNCHANGED <<ret, gvars, dvars, ovars>>

\* show_PC_state, lines 396-402: render and encode, which can raise, then send
show_PC_state ==
    /\ pc[d] = "show_PC_state"
    /\ \/ /\ Call_SER_rw(d, FALSE, 0, "show_pace")
          /\ UNCHANGED <<ret, gvars, dvars, ovars>>
       \/ /\ link = "faulty"
          /\ Uncaught
          /\ UNCHANGED <<ret, gvars, rwvars, dvars, ovars>>

\* show_PC_state, lines 405-409: the pacing sleep, then line 500
show_pace ==
    /\ pc[d] = "show_pace"
    /\ Goto(d, "d_loop")
    /\ failed' = {}
    /\ rw' = [rw EXCEPT ![d] = NoRw]
    /\ UNCHANGED <<stack, ret, gvars, sr, locals, ADC_det, echoFailed, ovars>>

(* Get_MSN_Device, lines 411-468 *)
\* the exchanges issued on the current port, with one more; a challenge
\* issued again by a later window of the scan is recorded once
Issue(x) ==
    IF issued # <<>> /\ issued[Len(issued)] = x /\ x = "challenge"
    THEN issued ELSE Append(issued, x)

\* Get_MSN_Device entered without closing the handle
gmd_entry_keeps ==
    /\ pc[d] = "gmd_entry"
    /\ My_MSN_Device' = 0
    /\ echoFailed' = {}
    /\ Goto(d, "gmd_for")
    /\ UNCHANGED <<stack, ret, gvars, rwvars, port_list, port,
                   gmd_recv, n, nmax, adc_readings, ADC_det, failed, ovars>>

\* lines 414-417
gmd_entry ==
    /\ pc[d] = "gmd_entry"
    /\ ser' = IF IsOpen(ser) THEN Close(ser) ELSE ser
    /\ My_MSN_Device' = 0
    /\ echoFailed' = {}
    /\ Goto(d, "gmd_for")
    /\ UNCHANGED <<stack, ret, Device_State, SER_lock, rwvars, port_list, port,
                   gmd_recv, n, nmax, adc_readings, ADC_det, failed, ovars>>

\* line 418: for port in port_list; line 456 once the list is used up
gmd_for ==
    /\ pc[d] = "gmd_for"
    /\ IF port_list = <<>>
       THEN /\ Goto(d, "gmd_none")
            /\ UNCHANGED <<port_list, port>>
       ELSE /\ port' = Head(port_list)
            /\ port_list' = Tail(port_list)
            /\ Goto(d, "gmd_open")
    /\ issued' = <<>>
    /\ UNCHANGED <<stack, ret, gvars, rwvars, gmd_recv, n, nmax, My_MSN_Device,
                   adc_readings, ADC_det, failed, echoFailed, nvars>>

\* line 421: ser = serial.Serial(...), which raises when the port cannot be
\* opened and then leaves ser as it was; line 422: recv = SER_Read()
gmd_open ==
    /\ pc[d] = "gmd_open"
    /\ \/ /\ ser' = [port |-> port, is_open |-> TRUE]
          /\ leaked' = leaked + (IF IsOpen(ser) THEN 1 ELSE 0)
          /\ Call(d, "SER_Read", "gmd_read_ret")
       \/ /\ link = "faulty"
          /\ Goto(d, "gmd_except")
          /\ UNCHANGED <<ser, stack, leaked>>
    /\ UNCHANGED <<ret, Device_State, SER_lock, rwvars, dvars, evars, envvars,
                   pvars, issued>>

\* lines 423-426, and the start of the scan of line 435
gmd_read_ret ==
    /\ pc[d] = "gmd_read_ret"
    /\ IF ret[d] = TIMEOUT
       THEN /\ ser' = Close(ser)
            /\ Goto(d, "gmd_for")
            /\ UNCHANGED <<gmd_recv, n, nmax>>
       ELSE /\ gmd_recv' = ret[d]
            /\ n' = 0
            /\ nmax' = Len(ret[d]) - 5
            /\ Goto(d, "gmd_scan")
            /\ UNCHANGED ser
    /\ ret' = [ret EXCEPT ![d] = <<>>]
    /\ sr' = [sr EXCEPT ![d] = NoRead]
    /\ UNCHANGED <<stack, Device_State, SER_lock, rw, port_list, port,
                   My_MSN_Device, adc_readings, ADC_det, failed, echoFailed, ovars>>

\* lines 427-432: the port could not be opened or read
gmd_except ==
    /\ pc[d] = "gmd_except"
    /\ ser' = IF IsOpen(ser) THEN Close(ser) ELSE ser
    /\ Goto(d, "gmd_for")
    /\ sr' = [sr EXCEPT ![d] = NoRead]
    /\ UNCHANGED <<stack, ret, Device_State, SER_lock, rw, dvars, ovars>>

\* lines 435-443: one window of the scan; recv is whatever line 443 last
\* stored, the range is the one computed when the scan began
gmd_scan ==
    /\ pc[d] = "gmd_scan"
    /\ IF n >= nmax
       THEN /\ Goto(d, "gmd_verdict")
            /\ UNCHANGED <<stack, rwvars, n, issued>>
       ELSE IF ScanIndexError(gmd_recv, n)
       THEN /\ Uncaught
            /\ UNCHANGED <<rwvars, n, issued>>
       ELSE IF ~ScanMatch(gmd_recv, n)
       THEN /\ n' = n + 1
            /\ UNCHANGED <<pc, stack, rwvars, issued>>
       ELSE /\ Call_SER_rw(d, TRUE, 0, "gmd_echo")
            /\ issued' = Issue("challenge")
            /\ UNCHANGED n
    /\ UNCHANGED <<ret, gvars, port_list, port, gmd_recv, nmax, My_MSN_Device,
                   adc_readings, ADC_det, failed, echoFailed, nvars>>

\* lines 443-448: recv = SER_rw(hex_use); the echo check
gmd_echo ==
    /\ pc[d] = "gmd_echo"
    /\ gmd_recv' = ret[d]
    /\ IF EchoOK(ret[d])
       THEN /\ My_MSN_Device' = port
            /\ echoFailed' = echoFailed \ {port}
            /\ Goto(d, "gmd_verdict")
            /\ UNCHANGED n
       ELSE /\ n' = n + 1
            /\ echoFailed' = echoFailed \cup {port}
            /\ Goto(d, "gmd_scan")
            /\ UNCHANGED My_MSN_Device
    /\ ret' = [ret EXCEPT ![d] = <<>>]
    /\ UNCHANGED <<stack, gvars, rwvars, port_list, port, nmax, adc_readings,
                   ADC_det, failed, ovars>>

\* lines 450-454
gmd_verdict ==
    /\ pc[d] = "gmd_verdict"
    /\ IF My_MSN_Device = 0
       THEN /\ ser' = Close(ser)
            /\ Goto(d, "gmd_for")
       ELSE /\ Goto(d, "gmd_none")
            /\ UNCHANGED ser
    /\ UNCHANGED <<stack, ret, Device_State, SER_lock, rwvars, dvars, ovars>>

\* the initialization entered whatever the scan found
gmd_none_unchecked ==
    /\ pc[d] = "gmd_none"
    /\ Goto(d, "LCD_State")
    /\ port_list' = <<>>
    /\ n' = 0
    /\ nmax' = 0
    /\ UNCHANGED <<stack, ret, gvars, rwvars, port, gmd_recv, My_MSN_Device,
                   adc_readings, ADC_det, failed, echoFailed, ovars>>

\* lines 456-457; the loop's port list and scan index are not read again
gmd_none ==
    /\ pc[d] = "gmd_none"
    /\ IF My_MSN_Device = 0 THEN Goto(d, "d_after_get") ELSE Goto(d, "LCD_State")
    /\ port_list' = <<>>
    /\ n' = 0
    /\ nmax' = 0
    /\ UNCHANGED <<stack, ret, gvars, rwvars, port, gmd_recv, My_MSN_Device,
                   adc_readings, ADC_det, failed, echoFailed, ovars>>

(* LCD_State, lines 312-328, called at line 461 *)
LCD_State_call ==
    /\ pc[d] = "LCD_State"
    /\ Call_SER_rw(d, TRUE, 0, "LCD_State_check")
    /\ issued' = Issue("LCD_State")
    /\ UNCHANGED <<ret, gvars, dvars, nvars>>

\* line 323
LCD_State_check ==
    /\ pc[d] = "LCD_State_check"
    /\ IF LCD_State_valid(ret[d])
       THEN Goto(d, "gmd_adc")
       ELSE Goto(d, "LCD_State_fail")
    /\ ret' = [ret EXCEPT ![d] = <<>>]
    /\ UNCHANGED <<stack, gvars, rwvars, dvars, ovars>>

\* line 327
LCD_State_fail ==
    /\ pc[d] = "LCD_State_fail"
    /\ set_device_state(0)
    /\ Goto(d, "LCD_State_ret0")
    /\ UNCHANGED <<stack, ret, SER_lock, rwvars, dvars, ovars>>

\* line 328: return 0, which Get_MSN_Device (line 461) does not look at
LCD_State_return0 ==
    /\ pc[d] = "LCD_State_ret0"
    /\ failed' = failed \cup {"LCD_State"}
    /\ Goto(d, "gmd_adc")
    /\ UNCHANGED <<stack, ret, gvars, rwvars, locals, ADC_det, echoFailed, ovars>>

\* lines 464-468: three samples, then the baseline and set_device_state(1)
gmd_adc ==
    /\ pc[d] = "gmd_adc"
    /\ IF Len(adc_readings) < 3
       THEN /\ Call_SER_rw(d, TRUE, 0, "Read_ADC_CH_check")
            /\ issued' = Issue("Read_ADC_CH")
            /\ UNCHANGED <<ser, Device_State, ADC_det>>
       ELSE /\ ADC_det' = ADC_baseline(adc_readings)
            /\ set_device_state(1)
            /\ Goto(d, "d_after_get")
            /\ UNCHANGED <<stack, rwvars, issued>>
    /\ UNCHANGED <<ret, SER_lock, port_list, port, gmd_recv, n, nmax,
                   My_MSN_Device, adc_readings, failed, echoFailed, nvars>>

(* Read_ADC_CH, lines 470-486 *)
\* lines 481-482
Read_ADC_CH_check ==
    /\ pc[d] = "Read_ADC_CH_check"
    /\ IF Read_ADC_CH_valid(ret[d])
       THEN /\ adc_readings' = Append(adc_readings, Read_ADC_CH_value(ret[d]))
            /\ Goto(d, "gmd_adc")
       ELSE /\ Goto(d, "Read_ADC_CH_fail")
            /\ UNCHANGED adc_readings
    /\ ret' = [ret EXCEPT ![d] = <<>>]
    /\ UNCHANGED <<stack, gvars, rwvars, port_list, port, gmd_recv, n, nmax,
                   My_MSN_Device, ADC_det, failed, echoFailed, ovars>>

\* line 485
Read_ADC_CH_fail ==
    /\ pc[d] = "Read_ADC_CH_fail"
    /\ set_device_state(0)
    /\ Goto(d, "Read_ADC_CH_ret0")
    /\ UNCHANGED <<stack, ret, SER_lock, rwvars, dvars, ovars>>

\* line 486: return 0, which becomes a reading
Read_ADC_CH_return0 ==
    /\ pc[d] = "Read_ADC_CH_ret0"
    /\ adc_readings' = Append(adc_readings, 0)
    /\ failed' = failed \cup {"Read_ADC_CH"}
    /\ Goto(d, "gmd_adc")
    /\ UNCHANGED <<stack, ret, gvars, rwvars, port_list, port, gmd_recv, n, nmax,
                   My_MSN_Device, ADC_det, echoFailed, ovars>>

\* lines 33-39 and the entry of daemon_task
Init ==
    /\ InitIdle
    /\ EncOff
    /\ Faulty
    /\ PaceOff
    /\ pc = [t \in Threads |-> IF t = d THEN "d_loop" ELSE "off"]
    /\ ser = NoSer
    /\ Device_State = 0

\* the environment: from now on a candidate port carries an authentic device
\* that answers every exchange, and no fault occurs
Heal ==
    /\ link = "faulty"
    /\ link' = "good"
    /\ device_port' \in 1..MaxPorts
    /\ UNCHANGED <<tvars, gvars, rwvars, dvars, evars, pvars, leaked, issued>>

\* one step of the daemon thread
daemon_task ==
    \/ daemon_test
    \/ daemon_comports
    \/ daemon_after_get
    \/ daemon_sleep2
    \/ daemon_except
    \/ LCD_ADD_call
    \/ LCD_ADD_check
    \/ LCD_ADD_fail
    \/ LCD_ADD_return0
    \/ LCD_Set_Color
    \/ show_PC_state
    \/ show_pace
    \/ gmd_entry
    \/ gmd_for
    \/ gmd_open
    \/ gmd_read_ret
    \/ gmd_except
    \/ gmd_scan
    \/ gmd_echo
    \/ gmd_verdict
    \/ gmd_none
    \/ LCD_State_call
    \/ LCD_State_check
    \/ LCD_State_fail
    \/ LCD_State_return0
    \/ gmd_adc
    \/ Read_ADC_CH_check
    \/ Read_ADC_CH_fail
    \/ Read_ADC_CH_return0
    \/ Transport(d)

Next == daemon_task \/ Heal

Spec == Init /\ [][Next]_vars

\* the daemon thread keeps running
FairSpec == Spec /\ WF_vars(daemon_task)

(***************************************************************************)
(* Screen_Date_Process, lines 219-258, and digit_to_ints, lines 207-209.   *)
(* A pixel entry is a 16-bit colour held in a 32-bit unsigned integer.     *)
(***************************************************************************)
\* line 222
data_per_page == 128

\* A 32-bit unsigned integer is held as its two 16-bit halves <<hi, lo>>,
\* the number hi * 65536 + lo.

\* x | y on unsigned integers
RECURSIVE BitOr(_, _)
BitOr(x, y) ==
    IF x = 0 THEN y
    ELSE IF y = 0 THEN x
    ELSE (IF x % 2 = 1 \/ y % 2 = 1 THEN 1 ELSE 0) + 2 * BitOr(x \div 2, y \div 2)

\* x << 16 on numpy.uint32, for an entry x below 2^31: the high half of x is lost
Shl16(x) == <<x % 65536, 0>>

\* v | y on numpy.uint32, for an entry y below 2^31
Or32(v, y) == <<BitOr(v[1], y \div 65536), BitOr(v[2], y % 65536)>>

\* u < v on numpy.uint32
Less32(u, v) == u[1] < v[1] \/ (u[1] = v[1] /\ u[2] < v[2])

\* digit_to_ints with the two middle bytes exchanged
digit_to_ints_swapped(di) ==
    << di[1] \div 256, di[2] \div 256, di[1] % 256, di[2] % 256 >>

\* lines 207-209: (di >> 24) & 0xFF, (di >> 16) & 0xFF, (di >> 8) & 0xFF,
\* di & 0xFF
digit_to_ints(di) ==
    << di[1] \div 256, di[1] % 256, di[2] \div 256, di[2] % 256 >>

\* lines 232 and 253: data_w[::2] << 16 | data_w[1::2]
Pack(data_w) ==
    [i \in 1..(Len(data_w) \div 2) |-> Or32(Shl16(data_w[2 * i - 1]), data_w[2 * i])]

\* the first entry, whatever its frequency
Background_first(cmp_use) == cmp_use[1]

\* lines 235-236: u, c = np.unique(cmp_use, return_counts=True); u[c.argmax()]:
\* np.unique sorts, argmax takes the first maximum, so the smallest of the
\* most frequent values
Background(cmp_use) ==
    LET u == {cmp_use[i] : i \in DOMAIN cmp_use}
        c == [v \in u |-> Cardinality({i \in DOMAIN cmp_use : cmp_use[i] = v})]
    IN  CHOOSE v \in u :
            \A w \in u : c[w] < c[v] \/ (c[w] = c[v] /\ ~Less32(w, v))

\* lines 241-244 from index i (0-based) on: 04 I and the value, for the
\* entries that differ from the background
RECURSIVE Writes(_, _, _)
Writes(cmp_use, result, i) ==
    IF i >= Len(cmp_use) THEN <<>>
    ELSE (IF cmp_use[i + 1] # result
          THEN <<4, i>> \o digit_to_ints(cmp_use[i + 1])
          ELSE <<>>) \o Writes(cmp_use, result, i + 1)

\* lines 254-256 from index i on: 04 I and the value, for every entry
RECURSIVE AllWrites(_, _)
AllWrites(cmp_use, i) ==
    IF i >= Len(cmp_use) THEN <<>>
    ELSE <<4, i>> \o digit_to_ints(cmp_use[i + 1]) \o AllWrites(cmp_use, i + 1)

\* a full page encoded with a write for every entry, as a partial page is
FullPage_unfilled(data_w) ==
    AllWrites(Pack(data_w), 0) \o <<2, 3, 8, 1, 0, 0>>

\* lines 229-246: one full page
FullPage(data_w) ==
    LET cmp_use == Pack(data_w)
        result == Background(cmp_use)
    IN  <<2, 4>> \o digit_to_ints(result) \o Writes(cmp_use, result, 0)
            \o <<2, 3, 8, 1, 0, 0>>

\* lines 228-246 for the pages from number k (0-based) on
RECURSIVE FullPages(_, _)
FullPages(data, k) ==
    IF k >= Len(data) \div data_per_page THEN <<>>
    ELSE FullPage(SubSeq(data, k * data_per_page + 1, (k + 1) * data_per_page))
            \o FullPages(data, k + 1)

\* line 252: np.full(data_per_page - remaining_data_size, 0xFF)
Filler(count) == [i \in 1..count |-> 255]

\* the partial flush with the entry count where the byte count belongs
PartialFlush_entries(remaining_data_size) ==
    <<2, 3, 8, 0, remaining_data_size, 0>>

\* line 257: 02 03 08 00, remaining_data_size * 2, 00
PartialFlush(remaining_data_size) ==
    <<2, 3, 8, 0, remaining_data_size * 2, 0>>

\* lines 249-257: the trailing partial page
PartialPage(data) ==
    LET remaining_data_size == Len(data) % data_per_page
        data_w == SubSeq(data, Len(data) - remaining_data_size + 1, Len(data))
                     \o Filler(data_per_page - remaining_data_size)
    IN  IF remaining_data_size # 0
        THEN AllWrites(Pack(data_w), 0) \o PartialFlush(remaining_data_size)
        ELSE <<>>

Screen_Date_Process(data) == FullPages(data, 0) \o PartialPage(data)

(***************************************************************************)
(* SpecEnc: the buffers Screen_Date_Process is applied to.                 *)
(***************************************************************************)
\* the most full pages a buffer has
MaxPages == 1

\* the sizes of the trailing partial page
Remainders == {0, 1, 2, 127}

\* WHITE, BLACK, RED and a colour with an empty high byte
Colors == {65535, 0, 63488, 255}

\* where the single outlier of a page sits
Positions == {0, 1, 64, 127}

\* entry i (0-based) of the buffer of a kind, with colours a and b
Pixel(kind, a, b, pos, i) ==
    CASE kind = "uniform" -> a
      [] kind = "outlier" -> IF i % data_per_page = pos THEN b ELSE a
      [] kind = "distinct" -> i % data_per_page
      [] kind = "halves" -> IF i % data_per_page < 64 THEN a ELSE b
      [] kind = "stripes" -> IF i % 2 = 0 THEN a ELSE b
      [] kind = "thirds" -> IF (i \div 2) % 3 = 0 THEN a
                            ELSE IF (i \div 2) % 3 = 1 THEN b ELSE pos

Kinds == {"uniform", "outlier", "distinct", "halves", "stripes", "thirds"}

\* the most full pages a buffer of one colour has
MaxUniformPages == 3

Buffers ==
    { [i \in 1..(k * data_per_page + r) |-> Pixel(kind, a, b, pos, i - 1)] :
        k \in 0..MaxPages, r \in Remainders, kind \in Kinds,
        a \in Colors, b \in Colors, pos \in Positions }
    \cup { [i \in 1..(k * data_per_page) |-> a] :
              k \in 0..MaxUniformPages, a \in Colors }

InitEnc ==
    /\ InitIdle
    /\ Faulty
    /\ PaceOff
    /\ pc = [t \in Threads |-> "off"]
    /\ ser = NoSer
    /\ Device_State = 0
    /\ Photo_data \in Buffers
    /\ hex_out = <<>>
    /\ enc_pc = "ready"

\* line 401: hex_use = Screen_Date_Process(rgb565.flatten())
Encode ==
    /\ enc_pc = "ready"
    /\ hex_out' = Screen_Date_Process(Photo_data)
    /\ enc_pc' = "done"
    /\ UNCHANGED <<Photo_data, tvars, gvars, rwvars, dvars, envvars, pvars, leaked, issued>>

NextEnc == Encode

SpecEnc == InitEnc /\ [][NextEnc]_vars

(***************************************************************************)
(* SpecPace: the clock of the Connected tick.  Only line 496 and lines     *)
(* 405-409 read or write current_monoto_time, last_refresh_time and        *)
(* wait_time, and nothing but the duration of the sleep of line 409        *)
(* depends on them: Spec leaves the clock out, and SpecPace runs the       *)
(* daemon's loop with the clock and without the exchanges.  Time is in     *)
(* units of the refresh interval.                                          *)
(***************************************************************************)
\* line 531: refresh_interval = 1.0
refresh_interval == 1

\* the clock stops the model at this reading
MaxTime == 6

\* how long the rendering, encoding and sending of one tick take
Works == {0, 1, 2}

\* how long start-up and discovery take before the first tick, or a
\* Disconnected period with its discovery between two ticks
Delays == {0, 1, 3}

\* what the clock and the pacing leave alone
untimed == <<tvars, gvars, rwvars, dvars, evars, envvars, leaked, issued>>

\* time.monotonic() is dt later
Elapse(dt) ==
    /\ monotonic + dt <= MaxTime
    /\ monotonic' = monotonic + dt

\* lines 503-514 and Get_MSN_Device: a Disconnected period that ends with
\* Device_State set to 1
pace_discover ==
    /\ pace_pc = "p_idle"
    /\ \E dt \in Delays : Elapse(dt)
    /\ pace_pc' = "p_tick"
    /\ UNCHANGED <<current_monoto_time, last_refresh_time, wait_time, untimed>>

\* line 496: current_monoto_time = time.monotonic()
pace_tick ==
    /\ pace_pc = "p_tick"
    /\ current_monoto_time' = monotonic
    /\ pace_pc' = "p_work"
    /\ UNCHANGED <<monotonic, last_refresh_time, wait_time, untimed>>

\* lines 497-402: LCD_ADD, LCD_Set_Color, and the rendering, encoding and
\* sending of show_PC_state
pace_work ==
    /\ pace_pc = "p_work"
    /\ \E w \in Works : Elapse(w)
    /\ pace_pc' = "p_pace"
    /\ UNCHANGED <<current_monoto_time, last_refresh_time, wait_time, untimed>>

\* line 405
seconds_elapsed == current_monoto_time - last_refresh_time

\* lines 405-407
pace_compute ==
    /\ pace_pc = "p_pace"
    /\ last_refresh_time' = current_monoto_time
    /\ wait_time' = wait_time + (refresh_interval - seconds_elapsed)
    /\ pace_pc' = "p_sleep"
    /\ UNCHANGED <<monotonic, current_monoto_time, untimed>>

\* lines 408-409: the duration of the sleep, 0 when there is none
Sleep == IF wait_time > 0 THEN wait_time ELSE 0

\* lines 408-409, then line 500 and the test of line 494: the next tick, or
\* a Disconnected period when an exchange of the tick failed
pace_sleep ==
    /\ pace_pc = "p_sleep"
    /\ Elapse(Sleep)
    /\ pace_pc' \in {"p_tick", "p_idle"}
    /\ UNCHANGED <<current_monoto_time, last_refresh_time, wait_time, untimed>>

InitPace ==
    /\ InitIdle
    /\ EncOff
    /\ Faulty
    /\ pc = [t \in Threads |-> "off"]
    /\ ser = NoSer
    /\ Device_State = 0
    /\ monotonic = 0
    /\ current_monoto_time = 0
    /\ last_refresh_time = 0
    /\ wait_time = 0
    /\ pace_pc = "p_idle"

NextPace ==
    \/ pace_discover
    \/ pace_tick
    \/ pace_work
    \/ pace_compute
    \/ pace_sleep

SpecPace == InitPace /\ [][NextPace]_vars

(***************************************************************************)
(* Properties.                                                             *)
(***************************************************************************)
\* the labels a call of SER_rw comes back at
RwBacks == {"LCD_ADD_check", "show_PC_state", "show_pace", "gmd_echo",
            "LCD_State_check", "Read_ADC_CH_check", "caller_idle"}

\* thread t is inside SER_rw's try block, SER_Read included
InExchange(t) ==
    \/ pc[t] \in {"SER_rw_check", "SER_rw_write", "SER_rw_got", "SER_rw_except",
                  "SER_rw_finally"}
    \/ pc[t] \in {"SER_Read", "SER_Read_loop"} /\ Head(stack[t]) = "SER_rw_got"

\* thread t is anywhere in a call of SER_rw
InSER_rw(t) == InExchange(t) \/ pc[t] \in {"SER_rw", "SER_rw_post", "SER_rw_ret381"}

\* C1: at each iteration boundary of daemon_task and right after each call
\* of set_device_state(0) returns, Device_State = 0 implies that the serial
\* handle is not open.
C1_DisconnectedImpliesClosed ==
    pc[d] \in {"d_loop", "LCD_ADD_ret0", "LCD_State_ret0", "Read_ADC_CH_ret0",
               "SER_rw_ret381"}
        => (Device_State = 0 => ~IsOpen(ser))

\* C2: whenever daemon_task tests Device_State and finds 1, the serial
\* handle is open.
C2_ConnectedImpliesOpen ==
    (pc[d] = "d_loop" /\ Device_State = 1) => IsOpen(ser)

\* C3: when Get_MSN_Device returns after a port authenticated and one of the
\* four initialization exchanges (LCD_State, three Read_ADC_CH) failed,
\* Device_State is 0.
C3_InitFailureLeavesDisconnected ==
    (/\ pc[d] = "d_after_get"
     /\ My_MSN_Device # 0
     /\ failed \cap {"LCD_State", "Read_ADC_CH"} # {})
        => Device_State = 0

\* the scan of port p, or a challenge exchange made from it, is under way
Scanning(p) ==
    /\ port = p
    /\ \/ pc[d] \in {"gmd_scan", "gmd_echo", "gmd_verdict"}
       \/ InSER_rw(d) /\ stack[d][Len(stack[d])] = "gmd_echo"

\* C4: a challenge response that does not end with the challenge frame never
\* authenticates the port: a port is authenticated only by a response that
\* ends with the frame, and a port whose response failed the check is closed
\* and left for the next candidate, not by an exception.
C4_EchoRejectsPort ==
    /\ My_MSN_Device # 0 => EchoOK(gmd_recv)
    /\ \A p \in echoFailed :
          (My_MSN_Device # p /\ ~Scanning(p))
              => /\ ~(ser.port = p /\ ser.is_open)
                 /\ ~(pc[d] = "d_except" /\ port = p)

\* C5: SER_rw with read=True on a link that delivers no byte ends within the
\* poll budget with an empty result: the budget never goes below zero, a
\* SER_Read whose polls were all empty returns the timeout value with the
\* budget used up, SER_rw then returns what it had collected before (nothing,
\* when that was its first SER_Read), and every exchange that has the lock
\* ends.
C5_TimeoutBound ==
    /\ [](\A t \in Threads :
            /\ sr[t].trytimes \in 0..TryBudget
            /\ (pc[t] = "SER_rw_got" /\ sr[t].recv = <<>>)
                  => (ret[t] = TIMEOUT /\ sr[t].trytimes = 0)
            /\ (pc[t] = "SER_rw_finally" /\ rw[t].exit = 369 /\ rw[t].size = 0)
                  => rw[t].result = <<>>)
    /\ \A t \in Callers : InExchange(t) ~> ~InExchange(t)

\* C5 witness: a SER_Read of SER_rw has polled an open, silent link to the end
\* of its budget and SER_rw is about to return the empty result
C5_Witness ==
    \E t \in Callers :
        /\ pc[t] = "SER_rw_finally"
        /\ rw[t].exit = 369
        /\ rw[t].result = <<>>
        /\ IsOpen(ser)

\* C6: a thread inside SER_rw's try block (is-open check, write, the whole
\* poll-read loop) holds SER_lock, so at most one thread is there.
C6_MutualExclusion ==
    /\ \A t \in Threads : InExchange(t) => SER_lock = t
    /\ Cardinality({t \in Threads : InExchange(t)}) <= 1

\* C6 witness: one thread polls for its response while another waits for the
\* lock
C6_Witness ==
    \E t1, t2 \in Callers :
        /\ t1 # t2
        /\ pc[t1] = "SER_Read_loop"
        /\ pc[t2] = "SER_rw"

\* C7: when SER_rw returns from an exchange that failed at transport level
\* (the timeout return of line 369 or the exception path's return of line
\* 381), Device_State is 0 and the handle is closed.
C7_FailureDisconnects ==
    (pc[d] \in RwBacks /\ rw[d].exit \in {369, 381})
        => (Device_State = 0 /\ ~IsOpen(ser))

\* LCD_Set_Color or show_PC_state has started in this tick
TickRest ==
    \/ pc[d] \in {"show_PC_state", "show_pace"}
    \/ InSER_rw(d) /\ stack[d][Len(stack[d])] \in {"show_PC_state", "show_pace"}

\* C8: in a tick where LCD_ADD failed validation, Device_State is 0 and
\* neither LCD_Set_Color nor show_PC_state with its pacing sleep runs.
C8_FailedTickEndsEarly ==
    "LCD_ADD" \in failed => (Device_State = 0 /\ ~TickRest)

(***************************************************************************)
(* The device's side of the page commands of section 6: fill the 64 slots  *)
(* with the value of 02 04, overwrite slot I with the value of 04 I, and   *)
(* take the page at the flush 02 03.                                       *)
(***************************************************************************)
\* the 6-byte frames of a byte string
Frames(hex) == [j \in 1..(Len(hex) \div 6) |-> SubSeq(hex, 6 * j - 5, 6 * j)]

\* the 32-bit value of the four payload bytes of a frame, high byte first
FrameValue(f) == <<f[3] * 256 + f[4], f[5] * 256 + f[6]>>

Slots == 0..63

Blank == <<-1, -1>>

IsFill(f) == f[1] = 2 /\ f[2] = 4
IsWrite(f) == f[1] = 4
IsFlush(f) == f[1] = 2 /\ f[2] = 3

Max(S) == CHOOSE x \in S : \A y \in S : y <= x

\* the page the device has when it takes the p-th flush of the frames: the
\* frames since the flush before are applied in order, so a slot holds the
\* value of the last write to it after the last fill, or else of that fill
DecodedPage(frames, p) ==
    LET flushes == {j \in DOMAIN frames : IsFlush(frames[j])}
        end == CHOOSE j \in flushes : Cardinality({k \in flushes : k <= j}) = p
        before == {k \in flushes : k < end}
        start == IF before = {} THEN 1 ELSE Max(before) + 1
        fills == {j \in start..end : IsFill(frames[j])}
        fill == IF fills = {} THEN 0 ELSE Max(fills)
        writes(i) == {j \in start..end :
                        j > fill /\ IsWrite(frames[j]) /\ frames[j][2] = i}
    IN  [fill |-> IF fill = 0 THEN Blank ELSE FrameValue(frames[fill]),
         nwrites |-> Cardinality({j \in start..end : IsWrite(frames[j])}),
         cells |-> [i \in Slots |->
                      IF writes(i) # {} THEN FrameValue(frames[Max(writes(i))])
                      ELSE IF fill = 0 THEN Blank
                      ELSE FrameValue(frames[fill])]]

\* the number of pages the device takes
NumDecoded == Cardinality({j \in DOMAIN Frames(hex_out) : IsFlush(Frames(hex_out)[j])})

Decoded(p) == DecodedPage(Frames(hex_out), p)

\* the full pages of the buffer
FullPageNumbers == 1..(Len(Photo_data) \div data_per_page)

\* (pixel[2i] << 16) | pixel[2i+1] for slot i of full page p, as its halves
Packed(p, i) ==
    << Photo_data[(p - 1) * data_per_page + 2 * i + 1],
       Photo_data[(p - 1) * data_per_page + 2 * i + 2] >>

\* how many slots of full page p hold the value v
Occurrences(p, v) == Cardinality({i \in Slots : Packed(p, i) = v})

\* C9: decoding what Screen_Date_Process emitted for a full page (fill with
\* the value of 02 04, overwrite the slots of the 04 I commands) gives back
\* (pixel[2i] << 16) | pixel[2i+1] in every slot i of 0..63.
C9_RoundTrip ==
    enc_pc = "done" =>
        /\ Len(hex_out) % 6 = 0
        /\ NumDecoded >= Len(Photo_data) \div data_per_page
        /\ \A p \in FullPageNumbers :
              LET D == Decoded(p)
              IN  \A i \in Slots : D.cells[i] = Packed(p, i)

\* C9 witness: a full page with one outlier has been encoded as a fill, one
\* write and a flush
C9_Witness ==
    /\ enc_pc = "done"
    /\ Len(Photo_data) = data_per_page
    /\ Len(hex_out) = 18
    /\ Decoded(1).nwrites = 1
    /\ Decoded(1).cells[0] # Decoded(1).fill

\* C10: the value of the 02 04 command of a full page is a packed value of
\* the page that no other value outnumbers; a value that outnumbers every
\* other one is the one selected; and the page has 64 minus the occurrences
\* of the selected value 04 I commands.
C10_MajoritySelection ==
    enc_pc = "done" =>
        /\ NumDecoded >= Len(Photo_data) \div data_per_page
        /\ \A p \in FullPageNumbers :
              LET D == Decoded(p)
                  F == D.fill
                  occ == [i \in Slots |-> Occurrences(p, Packed(p, i))]
                  occF == Occurrences(p, F)
              IN  /\ occF >= 1
                  /\ \A i \in Slots : occ[i] <= occF
                  /\ \A i \in Slots :
                        (\A j \in Slots :
                            Packed(p, j) # Packed(p, i) => occ[j] < occ[i])
                            => F = Packed(p, i)
                  /\ D.nwrites = 64 - occF

\* C10 witness: the selected value of a page is neither the page's first
\* value nor its smallest, and all slots but one hold it
C10_Witness ==
    /\ enc_pc = "done"
    /\ Len(Photo_data) >= data_per_page
    /\ Decoded(1).fill # Packed(1, 0)
    /\ Less32(Packed(1, 0), Decoded(1).fill)
    /\ Decoded(1).nwrites = 1

(***************************************************************************)
(* The trailing partial page.                                              *)
(***************************************************************************)
\* remaining_data_size of line 249
Remaining == Len(Photo_data) % data_per_page

FULL_FLUSH == <<2, 3, 8, 1, 0, 0>>

\* a flush of the partial-page path: 02 03 08 00
IsPartialFlush(f) == IsFlush(f) /\ f[3] = 8 /\ f[4] = 0

\* C11: when the buffer length is not a multiple of 128 the output ends with
\* the partial flush 02 03 08 00 R 00, R twice the remainder, preceded by
\* exactly 64 write commands for the indices 0..63 in order; when it is a
\* multiple, the output has no partial flush and is empty (length 0) or ends
\* with the full-page flush 02 03 08 01 00 00.
C11_PartialPageSizing ==
    enc_pc = "done" =>
        LET F == Frames(hex_out)
            nf == Len(F)
        IN  /\ Len(hex_out) % 6 = 0
            /\ Remaining # 0 =>
                  /\ nf >= 65
                  /\ F[nf] = <<2, 3, 8, 0, Remaining * 2, 0>>
                  /\ \A i \in Slots : IsWrite(F[nf - 64 + i]) /\ F[nf - 64 + i][2] = i
                  /\ nf > 65 => ~IsWrite(F[nf - 65])
                  /\ \A j \in 1..(nf - 1) : ~IsPartialFlush(F[j])
            /\ Remaining = 0 =>
                  /\ \A j \in 1..nf : ~IsPartialFlush(F[j])
                  /\ (Len(Photo_data) = 0) <=> (hex_out = <<>>)
                  /\ Len(Photo_data) # 0 => F[nf] = FULL_FLUSH

\* C11 witness: a buffer of one full page and 127 more entries has been
\* encoded, and the flush of its partial page carries 254
C11_Witness ==
    /\ enc_pc = "done"
    /\ Len(Photo_data) = data_per_page + 127
    /\ hex_out[Len(hex_out) - 1] = 254
    /\ Decoded(2).nwrites = 64

\* C12: the remainder of a trailing partial page is padded with 0xFFFF, so
\* every slot of the partial page that holds two filler entries is sent as
\* 0xFFFFFFFF, and the partial flush carries twice the remainder.
C12_FillerIsWhite ==
    (enc_pc = "done" /\ Remaining # 0) =>
        LET F == Frames(hex_out)
            nf == Len(F)
        IN  /\ F[nf][5] = Remaining * 2
            /\ \A i \in Slots :
                  2 * i >= Remaining => FrameValue(F[nf - 64 + i]) = <<65535, 65535>>

\* the buffer is k full pages of 0xFFFF
UniformWhite ==
    /\ Remaining = 0
    /\ \A i \in DOMAIN Photo_data : Photo_data[i] = 65535

\* C13: a buffer of k full pages whose entries all equal 0xFFFF encodes to k
\* times the fill 02 04 FF FF FF FF followed directly by the flush
\* 02 03 08 01 00 00, 12k bytes, with no write and no partial-page command.
C13_UniformBuffer ==
    (enc_pc = "done" /\ UniformWhite) =>
        LET k == Len(Photo_data) \div data_per_page
        IN  /\ Len(hex_out) = 12 * k
            /\ \A p \in 1..k :
                  SubSeq(hex_out, 12 * p - 11, 12 * p)
                      = <<2, 4, 255, 255, 255, 255>> \o FULL_FLUSH

\* C13 witness: the white buffer of the most pages has been encoded
C13_Witness ==
    /\ enc_pc = "done"
    /\ UniformWhite
    /\ Len(Photo_data) = MaxUniformPages * data_per_page
    /\ Len(hex_out) = 12 * MaxUniformPages

(***************************************************************************)
(* The transport and the daemon, continued.                                *)
(***************************************************************************)
\* C17: SER_Read returns the timeout value only when the poll it made last
\* (and so every poll it made) returned no bytes: a chunk delivered by a poll
\* within the budget, the last permitted one included, is what it returns.
C17_TimeoutOnlyWhenSilent ==
    \A t \in Threads :
        (pc[t] \in {"SER_rw_got", "gmd_read_ret"} /\ ret[t] = TIMEOUT)
            => sr[t].recv = <<>>

\* C14: the daemon never terminates on a fault: an exception that reaches
\* daemon_task's handler is followed by the handler's delay and then by the
\* test of the next iteration, and the daemon comes to the head of its loop
\* again and again, whatever happened in the iteration.
C14_DaemonNeverTerminates ==
    /\ [][pc[d] = "d_except" => pc'[d] \in {"d_except", "d_loop"}]_vars
    /\ []<>(pc[d] = "d_loop")
    /\ (pc[d] = "d_except") ~> (pc[d] = "d_loop")

\* C14 witness: an exception raised in the scan of a greeting has reached the
\* handler of daemon_task, the port still open
C14_Witness ==
    /\ pc[d] = "d_except"
    /\ stack[d] = <<>>
    /\ IsOpen(ser)
    /\ port # 0

\* the device is connected: Device_State is 1 and the handle is open
Connected == Device_State = 1 /\ IsOpen(ser)

\* C16: once a candidate port carries an authentic device that answers every
\* exchange and no fault occurs any more, whatever state the daemon is in, it
\* comes to be connected and stays connected.
C16_Recovery == [](link = "good" => <>[]Connected)

\* C16 witness: on a good link the daemon has passed the silent first port,
\* is connected to the device on a later port, and has sent it a frame
C16_Witness ==
    /\ link = "good"
    /\ Connected
    /\ ser.port = device_port
    /\ device_port > 1
    /\ pc[d] = "show_pace"

\* the exchanges of a discovery that authenticates, in their order
Handshake ==
    <<"challenge", "LCD_State", "Read_ADC_CH", "Read_ADC_CH", "Read_ADC_CH">>

\* C18: Device_State goes from 0 to 1 only in Get_MSN_Device, at line 467,
\* after a challenge exchange on the port the handle was opened on returned a
\* response ending with the challenge frame, and after the orientation
\* exchange and the three analog samples were issued, in that order.
C18_ConnectedOnlyByHandshake ==
    [][ (Device_State = 0 /\ Device_State' = 1) =>
            /\ pc[d] = "gmd_adc"
            /\ My_MSN_Device # 0
            /\ My_MSN_Device = port
            /\ ser.port = port
            /\ EchoOK(gmd_recv)
            /\ issued = Handshake ]_vars

\* C18 witness: Get_MSN_Device has just set Device_State to 1
C18_Witness ==
    /\ pc[d] = "d_after_get"
    /\ Device_State = 1
    /\ My_MSN_Device # 0
    /\ issued = Handshake

\* the number of open serial handles
OpenHandles == leaked + (IF IsOpen(ser) THEN 1 ELSE 0)

\* C19: at most one serial handle is open at any moment, and when
\* Get_MSN_Device opens a port the handle it opened before is closed.
C19_NoHandleLeak ==
    /\ OpenHandles <= 1
    /\ pc[d] = "gmd_open" => ~IsOpen(ser)

\* C19 witness: the second port is about to be opened after the first failed
\* the echo check and was closed
C19_Witness ==
    /\ pc[d] = "gmd_open"
    /\ port = 2
    /\ 1 \in echoFailed
    /\ ser.port = 1
    /\ ~ser.is_open

\* C20: SER_lock is held only by a thread inside SER_rw's try block: once
\* SER_rw returned or raised, also by an exception of the handler itself,
\* the thread does not hold the lock; and the lock is free again and again.
C20_LockReleased ==
    /\ [](\A t \in Threads : SER_lock = t => InExchange(t))
    /\ []((\A t \in Threads : ~InExchange(t)) => SER_lock = -1)
    /\ []<>(SER_lock = -1)

\* C20 witness: SER_rw was left by an exception raised in its handler, and
\* the other thread has taken the lock since
C20_Witness ==
    \E t1, t2 \in Callers :
        /\ pc[t1] = "caller_raised"
        /\ rw[t1].exit = RAISED
        /\ SER_lock = t2

\* the time this tick's LCD_ADD, LCD_Set_Color, rendering, encoding and
\* sending have taken when the sleep is about to begin
TickWork == monotonic - current_monoto_time

\* C15: in every Connected tick, the first after start-up and the first
\* after a Disconnected period included, show_PC_state sleeps for the
\* refresh interval less the time the tick's work took, or not at all when
\* the work took longer, and never for a negative duration.
C15_Pacing ==
    pace_pc = "p_sleep" =>
        /\ Sleep >= 0
        /\ Sleep = (IF refresh_interval - TickWork > 0
                    THEN refresh_interval - TickWork ELSE 0)

====
